---- MODULE Spec2Model ----
(***************************************************************************)
(* Model of chapter10/10.06/line.h: the value types `point` and `line`     *)
(* and their operations, computed in IEEE-754 binary64 arithmetic.         *)
(*                                                                         *)
(* A `double` is modelled bit-exactly.  A finite double is the record      *)
(*     [k |-> "fin", s |-> sign, m |-> significand, e |-> exponent]        *)
(* of value (-1)^s * m * 2^e, where the significand is a natural number of *)
(* at most 53 bits held as a sequence of 15-bit limbs, least significant   *)
(* first (TLC's integers are 32 bits wide).  Every arithmetic operation    *)
(* computes the exact result and rounds it once, to nearest, ties to even, *)
(* as the hardware does; overflow gives an infinity, underflow a subnormal *)
(* or zero, and invalid operations a NaN.                                  *)
(***************************************************************************)
EXTENDS Integers, Sequences, FiniteSets

(***************************************************************************)
(* Natural numbers of arbitrary size: sequences of limbs, least            *)
(* significant first, with no leading (last) zero limb; <<>> is 0.         *)
(***************************************************************************)
LimbBits == 15

Limb == 32768

Pow2(n) == 2^n

Max(a, b) == IF a >= b THEN a ELSE b

Min(a, b) == IF a <= b THEN a ELSE b

Dig(a, i) == IF i <= Len(a) THEN a[i] ELSE 0

RECURSIVE BNorm(_)
BNorm(a) ==
    IF a = <<>> THEN <<>>
    ELSE IF a[Len(a)] = 0 THEN BNorm(SubSeq(a, 1, Len(a) - 1))
    ELSE a

RECURSIVE BFromNat(_)
BFromNat(n) == IF n = 0 THEN <<>> ELSE <<n % Limb>> \o BFromNat(n \div Limb)

RECURSIVE BCmpAt(_, _, _)
BCmpAt(a, b, i) ==
    IF i = 0 THEN 0
    ELSE IF a[i] > b[i] THEN 1
    ELSE IF a[i] < b[i] THEN -1
    ELSE BCmpAt(a, b, i - 1)

\* -1, 0 or 1 as a < b, a = b or a > b.
BCmp(a, b) ==
    IF Len(a) > Len(b) THEN 1
    ELSE IF Len(a) < Len(b) THEN -1
    ELSE BCmpAt(a, b, Len(a))

RECURSIVE BAddC(_, _, _, _)
BAddC(a, b, i, c) ==
    IF i > Len(a) /\ i > Len(b)
    THEN (IF c = 0 THEN <<>> ELSE <<c>>)
    ELSE LET t == Dig(a, i) + Dig(b, i) + c
         IN  <<t % Limb>> \o BAddC(a, b, i + 1, t \div Limb)

BAdd(a, b) == BAddC(a, b, 1, 0)

RECURSIVE BSubC(_, _, _, _)
BSubC(a, b, i, c) ==
    IF i > Len(a) THEN <<>>
    ELSE LET t == a[i] - Dig(b, i) - c
         IN  IF t < 0 THEN <<t + Limb>> \o BSubC(a, b, i + 1, 1)
                      ELSE <<t>> \o BSubC(a, b, i + 1, 0)

\* a - b, for a >= b.
BSub(a, b) == BNorm(BSubC(a, b, 1, 0))

RECURSIVE BMulSmallC(_, _, _, _)
BMulSmallC(a, d, i, c) ==
    IF i > Len(a) THEN (IF c = 0 THEN <<>> ELSE <<c>>)
    ELSE LET t == a[i] * d + c
         IN  <<t % Limb>> \o BMulSmallC(a, d, i + 1, t \div Limb)

\* a * d, for a limb d.
BMulSmall(a, d) == IF d = 0 THEN <<>> ELSE BMulSmallC(a, d, 1, 0)

BShiftLimb(a) == IF a = <<>> THEN <<>> ELSE <<0>> \o a

RECURSIVE BMulAt(_, _, _)
BMulAt(a, b, j) ==
    IF j > Len(b) THEN <<>>
    ELSE BAdd(BMulSmall(a, b[j]), BShiftLimb(BMulAt(a, b, j + 1)))

BMul(a, b) == BMulAt(a, b, 1)

RECURSIVE BDivSmallAt(_, _, _, _)
BDivSmallAt(a, d, i, r) ==
    IF i = 0 THEN <<>>
    ELSE LET cur == r * Limb + a[i]
         IN  BDivSmallAt(a, d, i - 1, cur % d) \o <<cur \div d>>

\* floor(a / d), for a limb d > 0.
BDivSmall(a, d) == BNorm(BDivSmallAt(a, d, Len(a), 0))

\* a * 2^k.
BShl(a, k) ==
    IF a = <<>> THEN <<>>
    ELSE [i \in 1..(k \div LimbBits) |-> 0] \o BMulSmall(a, Pow2(k % LimbBits))

\* floor(a / 2^k).
BShr(a, k) ==
    IF k \div LimbBits >= Len(a) THEN <<>>
    ELSE BDivSmall(SubSeq(a, k \div LimbBits + 1, Len(a)), Pow2(k % LimbBits))

RECURSIVE BitLenSmall(_)
BitLenSmall(d) == IF d = 0 THEN 0 ELSE 1 + BitLenSmall(d \div 2)

BBitLen(a) ==
    IF a = <<>> THEN 0 ELSE LimbBits * (Len(a) - 1) + BitLenSmall(a[Len(a)])

BOdd(a) == a # <<>> /\ a[1] % 2 = 1

BOne == <<1>>

(***************************************************************************)
(* binary64: 53 significant bits, exponents of the least significant bit   *)
(* from -1074 (subnormals) to 971 (the largest finite values).             *)
(***************************************************************************)
Precision == 53

EMin == -1074

EMax == 971

Zero(s) == [k |-> "fin", s |-> s, m |-> <<>>, e |-> 0]

Inf(s) == [k |-> "inf", s |-> s, m |-> <<>>, e |-> 0]

NaN == [k |-> "nan", s |-> 0, m |-> <<>>, e |-> 0]

IsZero(x) == x.k = "fin" /\ x.m = <<>>

Bit(a, j) == (Dig(a, j \div LimbBits + 1) \div Pow2(j % LimbBits)) % 2

\* Whether the j low bits of a are all 0.
LowZero(a, j) ==
    /\ \A i \in 1..(j \div LimbBits) : Dig(a, i) = 0
    /\ Dig(a, j \div LimbBits + 1) % Pow2(j % LimbBits) = 0

\* The sh low bits of M against half of 2^sh: -1, 0 or 1.
CmpHalf(M, sh) ==
    IF Bit(M, sh - 1) = 0 THEN -1 ELSE IF LowZero(M, sh - 1) THEN 0 ELSE 1

\* The double of sign s, significand m and exponent e, both in range
\* below; a significand too large for its exponent's range is an infinity.
Pack(s, m, e) ==
    IF m = <<>> THEN Zero(s)
    ELSE IF e > EMax THEN Inf(s)
    ELSE [k |-> "fin", s |-> s, m |-> m, e |-> e]

\* A significand that rounding up carried into one more bit is halved.
PackCarry(s, m, e) ==
    IF BBitLen(m) > Precision THEN Pack(s, BShr(m, 1), e + 1) ELSE Pack(s, m, e)

\* q, the significand cut to its place, goes up by one if the bits cut
\* (c, against half a place; sticky, bits below those) are above half a
\* place, or are half a place and q is odd.
RoundUp(s, q, c, e, sticky) ==
    IF c > 0 \/ (c = 0 /\ (sticky \/ BOdd(q)))
    THEN PackCarry(s, BAdd(q, BOne), e)
    ELSE Pack(s, q, e)

\* sh is the number of low bits of M that do not fit the significand.
RoundShift(s, M, E, sticky, sh) ==
    IF sh <= 0 THEN Pack(s, BShl(M, -sh), E + sh)
    ELSE RoundUp(s, BShr(M, sh), CmpHalf(M, sh), E + sh, sticky)

\* The double nearest to (-1)^s * (M + f) * 2^E, where 0 < f < 1 if sticky
\* and f = 0 otherwise; ties go to the even significand.
Round(s, M, E, sticky) ==
    IF M = <<>> THEN Zero(s)
    ELSE RoundShift(s, M, E, sticky, Max(BBitLen(M) - Precision, EMin - E))

\* The double of value n, an integer with |n| < 2^31.
FromInt(n) ==
    IF n < 0 THEN Round(1, BFromNat(-n), 0, FALSE)
             ELSE Round(0, BFromNat(n), 0, FALSE)

fneg(x) == IF x.k = "nan" THEN x ELSE [x EXCEPT !.s = 1 - x.s]

\* std::abs(double)
fabs(x) == IF x.k = "nan" THEN x ELSE [x EXCEPT !.s = 0]

\* (-1)^sx * X * 2^e + (-1)^sy * Y * 2^e, exactly.
XAddAligned(sx, X, sy, Y, e) ==
    IF sx = sy THEN [k |-> "fin", s |-> sx, m |-> BAdd(X, Y), e |-> e]
    ELSE IF BCmp(X, Y) = 0 THEN [k |-> "fin", s |-> 0, m |-> <<>>, e |-> e]
    ELSE IF BCmp(X, Y) > 0 THEN [k |-> "fin", s |-> sx, m |-> BSub(X, Y), e |-> e]
    ELSE [k |-> "fin", s |-> sy, m |-> BSub(Y, X), e |-> e]

XAddAt(x, y, e) ==
    XAddAligned(x.s, BShl(x.m, x.e - e), y.s, BShl(y.m, y.e - e), e)

\* The exact sum of two finite values, as sign, magnitude and exponent.
XAdd(x, y) ==
    IF IsZero(x) THEN XAddAt(x, y, y.e)
    ELSE IF IsZero(y) THEN XAddAt(x, y, x.e)
    ELSE XAddAt(x, y, Min(x.e, y.e))

\* The exact product of two finite values.
XMul(x, y) ==
    [k |-> "fin", s |-> (x.s + y.s) % 2, m |-> BMul(x.m, y.m), e |-> x.e + y.e]

\* An exact value, rounded to a double.
RoundX(z) == Round(z.s, z.m, z.e, FALSE)

\* double + double
fadd(x, y) ==
    IF x.k = "nan" \/ y.k = "nan" THEN NaN
    ELSE IF x.k = "inf" /\ y.k = "inf" THEN (IF x.s = y.s THEN x ELSE NaN)
    ELSE IF x.k = "inf" THEN x
    ELSE IF y.k = "inf" THEN y
    \* An operand below an eighth of the other's last place rounds away.
    ELSE IF ~IsZero(x) /\ ~IsZero(y) /\ x.e - y.e >= Precision + 3 THEN x
    ELSE IF ~IsZero(x) /\ ~IsZero(y) /\ y.e - x.e >= Precision + 3 THEN y
    ELSE RoundX(XAdd(x, y))

\* double - double
fsub(x, y) == fadd(x, fneg(y))

\* double * double
fmul(x, y) ==
    IF x.k = "nan" \/ y.k = "nan" THEN NaN
    ELSE IF x.k = "inf" \/ y.k = "inf"
         THEN (IF IsZero(x) \/ IsZero(y) THEN NaN ELSE Inf((x.s + y.s) % 2))
    ELSE RoundX(XMul(x, y))

QuotientBits == Precision + 3

\* The QuotientBits leading bits of R / D, for D <= R < 2 * D, and whether
\* they are all of it: restoring division, a bit a step; Q holds the bits
\* found.
RECURSIVE DivBits(_, _, _)
DivBits(R, D, Q) ==
    IF BBitLen(Q) = QuotientBits THEN [q |-> Q, exact |-> R = <<>>]
    ELSE IF BCmp(R, D) >= 0
    THEN DivBits(BMulSmall(BSub(R, D), 2), D, BAddC(Q, Q, 1, 1))
    ELSE DivBits(BMulSmall(R, 2), D, BAddC(Q, Q, 1, 0))

\* The bits d found, of exponent e, rounded.
RoundBits(s, d, e) == Round(s, d.q, e, ~d.exact)

\* X * 2^ex / (D * 2^ed) for X and D of the same bit length.
DivAligned(s, X, ex, D, ed) ==
    IF BCmp(X, D) >= 0
    THEN RoundBits(s, DivBits(X, D, <<>>), ex - ed - (QuotientBits - 1))
    ELSE RoundBits(s, DivBits(BMulSmall(X, 2), D, <<>>),
                   ex - 1 - ed - (QuotientBits - 1))

DivShift(s, x, a, y, b) ==
    DivAligned(s, BShl(x.m, a), x.e - a, BShl(y.m, b), y.e - b)

\* double / double
fdiv(x, y) ==
    IF x.k = "nan" \/ y.k = "nan" THEN NaN
    ELSE IF x.k = "inf" THEN (IF y.k = "inf" THEN NaN ELSE Inf((x.s + y.s) % 2))
    ELSE IF y.k = "inf" THEN Zero((x.s + y.s) % 2)
    ELSE IF IsZero(y) THEN (IF IsZero(x) THEN NaN ELSE Inf((x.s + y.s) % 2))
    ELSE IF IsZero(x) THEN Zero((x.s + y.s) % 2)
    ELSE DivShift((x.s + y.s) % 2,
                  x, Max(BBitLen(y.m) - BBitLen(x.m), 0),
                  y, Max(BBitLen(x.m) - BBitLen(y.m), 0))

RootBits == Precision + 3

\* The square root of the 2 * n low bits of N after those that gave root
\* and left rem, two bits a step from the top: root becomes the largest r
\* with r * r <= N, and rem becomes N - r * r.
RECURSIVE ISqrtAt(_, _, _, _)
RECURSIVE ISqrtStep(_, _, _, _, _)
ISqrtAt(N, rem, root, n) ==
    IF n = 0 THEN [q |-> root, exact |-> rem = <<>>]
    ELSE ISqrtStep(N, BMulSmallC(rem, 4, 1, 2 * Bit(N, 2 * n - 1) + Bit(N, 2 * n - 2)),
                   BMulSmallC(root, 4, 1, 1), root, n)

ISqrtStep(N, r4, t, root, n) ==
    IF BCmp(r4, t) >= 0
    THEN ISqrtAt(N, BSub(r4, t), BMulSmallC(root, 2, 1, 1), n - 1)
    ELSE ISqrtAt(N, r4, BMulSmallC(root, 2, 1, 0), n - 1)

\* sqrt(m * 2^(e - k)) for e - k even and m * 2^k of 2 * RootBits bits or
\* one fewer.
SqrtShift(m, e, k) ==
    RoundBits(0, ISqrtAt(BShl(m, k), <<>>, <<>>, RootBits), (e - k) \div 2)

\* std::sqrt(double)
fsqrt(x) ==
    IF x.k = "nan" THEN NaN
    ELSE IF IsZero(x) THEN x
    ELSE IF x.s = 1 THEN NaN
    ELSE IF x.k = "inf" THEN x
    ELSE SqrtShift(x.m, x.e,
                   2 * RootBits - BBitLen(x.m) - ((x.e - BBitLen(x.m)) % 2))

\* |x| < |y|, for neither a NaN.
MagLess(x, y) ==
    IF x.k = "inf" THEN FALSE
    ELSE IF y.k = "inf" THEN TRUE
    ELSE IF IsZero(y) THEN FALSE
    ELSE IF IsZero(x) THEN TRUE
    ELSE x.e < y.e \/ (x.e = y.e /\ BCmp(x.m, y.m) < 0)

\* double < double
fless(x, y) ==
    IF x.k = "nan" \/ y.k = "nan" THEN FALSE
    ELSE IF IsZero(x) /\ IsZero(y) THEN FALSE
    ELSE IF x.s # y.s THEN x.s = 1
    ELSE IF x.s = 0 THEN MagLess(x, y)
    ELSE MagLess(y, x)

\* double > double
fgreater(x, y) == fless(y, x)

(***************************************************************************)
(* Decimal literals.  n / 10^p is rounded once, as the compiler rounds the *)
(* literal: n and 10^p are exact doubles for |n| < 2^31 and p <= 22.       *)
(***************************************************************************)
RECURSIVE Pow10(_)
Pow10(p) == IF p = 0 THEN FromInt(1) ELSE fmul(FromInt(10), Pow10(p - 1))

Dec(n, p) == fdiv(FromInt(n), Pow10(p))

\* static const double epsilon = 1.e-10;
epsilon == Dec(1, 10)

\* std::numeric_limits<double>::max()
DBL_MAX ==
    [k |-> "fin", s |-> 0, m |-> BSub(BShl(BOne, Precision), BOne), e |-> EMax]

(***************************************************************************)
(* struct point and its operators.                                         *)
(***************************************************************************)
point(x, y) == [x |-> x, y |-> y]

\* point operator-(const point& A, const point& B)
PointSub(A, B) == point(fsub(A.x, B.x), fsub(A.y, B.y))

\* double operator*(const point& A, const point& B)
PointDot(A, B) == fadd(fmul(A.x, B.x), fmul(A.y, B.y))

\* double norm(const point& A)
norm(A) == fsqrt(PointDot(A, A))

\* bool operator==(const point& A, const point& B)
PointEq(A, B) == fless(norm(PointSub(B, A)), epsilon)

\* bool operator!=(const point& A, const point& B)
PointNe(A, B) == ~PointEq(A, B)

(***************************************************************************)
(* class line: the members A and B, and the member functions.              *)
(***************************************************************************)
\* The member initialisers A(__A), B(__B).
line(A, B) == [A |-> A, B |-> B]

\* A constructor whose assertion never fires, as one compiled with NDEBUG
\* would be: C1 tells it from the constructor of the source.
line_assert_disabled(ln) == TRUE

\* The constructor's assert(A != B).
line_assert(ln) == PointNe(ln.A, ln.B)

\* A sine() that divides B.y - A.y by the norm whatever the order of A.x and
\* B.x: C7 tells it from sine().
sine_unswapped(ln) ==
    IF fless(fabs(fsub(ln.A.x, ln.B.x)), epsilon)
    THEN FromInt(1)
    ELSE fdiv(fsub(ln.B.y, ln.A.y), norm(PointSub(ln.B, ln.A)))

\* A sine() that gives a vertical line the sign of B.y - A.y: C8 tells it
\* from sine().
sine_signed_vertical(ln) ==
    IF fless(fabs(fsub(ln.A.x, ln.B.x)), epsilon)
    THEN IF fless(ln.B.y, ln.A.y) THEN FromInt(-1) ELSE FromInt(1)
    ELSE IF fgreater(ln.B.x, ln.A.x)
    THEN fdiv(fsub(ln.B.y, ln.A.y), norm(PointSub(ln.B, ln.A)))
    ELSE fdiv(fsub(ln.A.y, ln.B.y), norm(PointSub(ln.B, ln.A)))

\* double line::sine() const
sine(ln) ==
    IF fless(fabs(fsub(ln.A.x, ln.B.x)), epsilon)
    THEN FromInt(1)
    ELSE IF fgreater(ln.B.x, ln.A.x)
    THEN fdiv(fsub(ln.B.y, ln.A.y), norm(PointSub(ln.B, ln.A)))
    ELSE fdiv(fsub(ln.A.y, ln.B.y), norm(PointSub(ln.B, ln.A)))

\* An x_intercept() that takes the line for parallel to the x axis when
\* |A.x - B.x| < epsilon: C9 tells it from x_intercept().
x_intercept_by_x(ln) ==
    IF fless(fabs(fsub(ln.A.x, ln.B.x)), epsilon)
    THEN DBL_MAX
    ELSE LET m == fdiv(fsub(ln.B.x, ln.A.x), fsub(ln.B.y, ln.A.y))
         IN  fsub(ln.A.x, fmul(m, ln.A.y))

\* double line::x_intercept() const
x_intercept(ln) ==
    IF fless(fabs(fsub(ln.A.y, ln.B.y)), epsilon)
    THEN DBL_MAX
    ELSE LET m == fdiv(fsub(ln.B.x, ln.A.x), fsub(ln.B.y, ln.A.y))
         IN  fsub(ln.A.x, fmul(m, ln.A.y))

\* double line::y_intercept() const
y_intercept(ln) ==
    IF fless(fabs(fsub(ln.A.x, ln.B.x)), epsilon)
    THEN DBL_MAX
    ELSE LET m == fdiv(fsub(ln.B.y, ln.A.y), fsub(ln.B.x, ln.A.x))
         IN  fsub(ln.A.y, fmul(m, ln.A.x))

\* A crosses() without the test for C lying on A or on B: C2 tells it from
\* crosses().
crosses_no_shortcut(ln, C) ==
    LET bc == norm(PointSub(C, ln.B))
        ab == norm(PointSub(ln.B, ln.A))
    IN  fless(fabs(fsub(fabs(PointDot(PointSub(ln.B, ln.A),
                                      PointSub(C, ln.B))),
                        fmul(ab, bc))),
              fmul(fmul(epsilon, ab), bc))

\* A crosses() that compares the signed dot product with ab * bc, and so
\* accepts only the directions of B - A: C3 tells it from crosses().
crosses_signed(ln, C) ==
    IF PointEq(ln.A, C) \/ PointEq(ln.B, C)
    THEN TRUE
    ELSE LET bc == norm(PointSub(C, ln.B))
             ab == norm(PointSub(ln.B, ln.A))
         IN  fless(fabs(fsub(PointDot(PointSub(ln.B, ln.A),
                                      PointSub(C, ln.B)),
                             fmul(ab, bc))),
                   fmul(fmul(epsilon, ab), bc))

\* A crosses() that bounds |sin t| rather than 1 - |cos t| by epsilon, t
\* the angle between B - A and C - B: C4 tells it from crosses().
crosses_by_sine(ln, C) ==
    IF PointEq(ln.A, C) \/ PointEq(ln.B, C)
    THEN TRUE
    ELSE LET bc == norm(PointSub(C, ln.B))
             ab == norm(PointSub(ln.B, ln.A))
             u  == PointSub(ln.B, ln.A)
             v  == PointSub(C, ln.B)
         IN  fless(fabs(fsub(fmul(u.x, v.y), fmul(u.y, v.x))),
                   fmul(fmul(epsilon, ab), bc))

\* bool line::crosses(const point& C) const
crosses(ln, C) ==
    IF PointEq(ln.A, C) \/ PointEq(ln.B, C)
    THEN TRUE
    ELSE LET bc == norm(PointSub(C, ln.B))
             ab == norm(PointSub(ln.B, ln.A))
         IN  fless(fabs(fsub(fabs(PointDot(PointSub(ln.B, ln.A),
                                           PointSub(C, ln.B))),
                             fmul(ab, bc))),
                   fmul(fmul(epsilon, ab), bc))

\* bool operator==(const line& r, const line& s)
LineEq(r, s) == crosses(r, s.A) /\ crosses(r, s.B)

\* bool operator!=(const line& r, const line& s)
LineNe(r, s) == ~LineEq(r, s)

(***************************************************************************)
(* The inputs: the points of a small integer grid, and the points and      *)
(* lines of the documented scenarios and of the degenerate cases.          *)
(***************************************************************************)
MaxCoord == 1

GridPts == {point(FromInt(i), FromInt(j)) : i, j \in 0..MaxCoord}

IntPt(i, j) == point(FromInt(i), FromInt(j))

\* (0.1, 0.3) * 2^i: collinear points none of whose coordinates is exact.
RayPt(i) == point(fmul(FromInt(Pow2(i)), Dec(1, 1)), fmul(FromInt(Pow2(i)), Dec(3, 1)))

ScenarioPts ==
    { IntPt(-7, 5), point(FromInt(-7), Dec(50000001, 7)),
      IntPt(2, -1000), point(Dec(20000001, 7), FromInt(0)),
      IntPt(5, 5), point(FromInt(5), Dec(49999999, 7)),
      IntPt(-1, -1), IntPt(6, 6), point(FromInt(2), Dec(20001, 4)),
      RayPt(0), RayPt(1), RayPt(7) }

ScenarioLines ==
    { <<IntPt(0, 5), IntPt(3, 5)>>,
      <<IntPt(2, 0), IntPt(2, 9)>>,
      <<IntPt(2, 9), IntPt(2, 0)>>,
      <<IntPt(0, 0), IntPt(2, 2)>>,
      <<IntPt(-1, -1), IntPt(5, 5)>>,
      <<IntPt(0, 0), point(FromInt(2), Dec(20001, 4))>>,
      <<IntPt(-1, -1), IntPt(6, 6)>>,
      <<IntPt(6, 6), IntPt(-1, -1)>>,
      <<RayPt(0), RayPt(1)>>,
      <<RayPt(0), RayPt(7)>>,
      <<RayPt(1), RayPt(7)>>,
      <<RayPt(7), RayPt(0)>>,
      <<IntPt(2, -1000), point(Dec(20000001, 7), FromInt(0))>>,
      <<point(Dec(20000001, 7), FromInt(0)), IntPt(2, -1000)>>,
      <<IntPt(3, 4), point(FromInt(3), fadd(FromInt(4), Dec(1, 12)))>>,
      <<IntPt(0, 0), point(Dec(8, 11), Dec(8, 11))>>,
      <<IntPt(0, 0), point(Dec(99, 12), Dec(2, 11))>> }

LineArgs == (GridPts \X GridPts) \cup ScenarioLines

QueryPts == GridPts \cup ScenarioPts

EqArgs ==
    { <<IntPt(0, 0), IntPt(2, 2)>>,
      <<IntPt(-1, -1), IntPt(5, 5)>>,
      <<IntPt(0, 0), point(FromInt(2), Dec(20001, 4))>>,
      <<IntPt(-1, -1), IntPt(6, 6)>> }

(***************************************************************************)
(* A caller: it constructs a line, then calls its member functions one at  *)
(* a time.  `lines` is the set of line objects that exist.                 *)
(***************************************************************************)
VARIABLES pc, given, lines, op, arg, ret

vars == <<pc, given, lines, op, arg, ret>>

None == <<>>

Init ==
    /\ pc = "start"
    /\ given = None
    /\ lines = {}
    /\ op = "none"
    /\ arg = None
    /\ ret = None

\* line(const point& __A, const point& __B): a failed assertion aborts.
Construct(P, Q) ==
    /\ pc = "start"
    /\ given' = <<P, Q>>
    /\ IF line_assert(line(P, Q))
       THEN lines' = {line(P, Q)} /\ pc' = "ready"
       ELSE lines' = {} /\ pc' = "aborted"
    /\ UNCHANGED <<op, arg, ret>>

Call(name, a, r) ==
    /\ pc' = "returned"
    /\ op' = name
    /\ arg' = a
    /\ ret' = r
    /\ UNCHANGED <<given, lines>>

Sine ==
    /\ pc = "ready"
    /\ \E ln \in lines : Call("sine", None, sine(ln))

XIntercept ==
    /\ pc = "ready"
    /\ \E ln \in lines : Call("x_intercept", None, x_intercept(ln))

YIntercept ==
    /\ pc = "ready"
    /\ \E ln \in lines : Call("y_intercept", None, y_intercept(ln))

Crosses ==
    /\ pc = "ready"
    /\ \E ln \in lines : \E C \in QueryPts \cup {ln.A, ln.B} :
           Call("crosses", C, crosses(ln, C))

Equals ==
    /\ pc = "ready"
    /\ \E ln \in lines : \E a \in EqArgs :
           Call("eq", line(a[1], a[2]), LineEq(ln, line(a[1], a[2])))

NotEquals ==
    /\ pc = "ready"
    /\ \E ln \in lines : \E a \in EqArgs :
           Call("ne", line(a[1], a[2]), LineNe(ln, line(a[1], a[2])))

\* The caller takes the result and is ready for the next call.
Resume ==
    /\ pc = "returned"
    /\ pc' = "ready"
    /\ op' = "none"
    /\ arg' = None
    /\ ret' = None
    /\ UNCHANGED <<given, lines>>

Next ==
    \/ \E a \in LineArgs : Construct(a[1], a[2])
    \/ Sine
    \/ XIntercept
    \/ YIntercept
    \/ Crosses
    \/ Equals
    \/ NotEquals
    \/ Resume

Spec == Init /\ [][Next]_vars

(***************************************************************************)
(* The documented scenarios and the terms the properties are stated in.    *)
(***************************************************************************)
S1Line == line(IntPt(0, 5), IntPt(3, 5))

S2Line == line(IntPt(2, 0), IntPt(2, 9))

S3Line == line(IntPt(0, 0), IntPt(1, 1))

S6Args == <<IntPt(3, 4), point(FromInt(3), fadd(FromInt(4), Dec(1, 12)))>>

\* |A.x - B.x| < epsilon
Vertical(ln) == fless(fabs(fsub(ln.A.x, ln.B.x)), epsilon)

\* |A.y - B.y| < epsilon
Horizontal(ln) == fless(fabs(fsub(ln.A.y, ln.B.y)), epsilon)

\* Equality of two doubles as numbers: -0 equals +0, a NaN equals nothing.
feq(x, y) ==
    /\ x.k # "nan"
    /\ y.k # "nan"
    /\ (IsZero(x) /\ IsZero(y)) \/ x = y

\* x <= y as numbers.
fle(x, y) == fless(x, y) \/ feq(x, y)

\* Exact arithmetic on doubles: nothing is rounded.
XSub(x, y) == XAdd(x, fneg(y))

\* (B - A) x (C - A), exactly.
CrossProduct(A, B, C) ==
    XSub(XMul(XSub(B.x, A.x), XSub(C.y, A.y)),
         XMul(XSub(B.y, A.y), XSub(C.x, A.x)))

\* C is on the line through A and B: C = A + t * (B - A) for a real t.
Collinear(A, B, C) == CrossProduct(A, B, C).m = <<>>

\* (C - A) . (B - A), exactly: its sign is that of t.
Along(A, B, C) ==
    XAdd(XMul(XSub(C.x, A.x), XSub(B.x, A.x)),
         XMul(XSub(C.y, A.y), XSub(B.y, A.y)))

\* The three scenario calls of crosses with a point 1e-7 off the line.
OffLineCall ==
    /\ op = "crosses"
    /\ \/ lines = {S1Line} /\ arg = point(FromInt(-7), Dec(50000001, 7))
       \/ lines = {S2Line} /\ arg = point(Dec(20000001, 7), FromInt(0))
       \/ lines = {S3Line} /\ arg = point(FromInt(5), Dec(49999999, 7))

(***************************************************************************)
(* C1.  Constructing a line from two points with norm(B - A) < epsilon     *)
(* aborts and no line comes to exist, as for (3, 4) and (3, 4 + 1e-12);    *)
(* every line that exists has norm(B - A) >= epsilon; and construction     *)
(* from points with norm(B - A) >= epsilon succeeds and stores the two     *)
(* points as given.                                                        *)
(***************************************************************************)
C1_ConstructorContract ==
    /\ \A ln \in lines : ~fless(norm(PointSub(ln.B, ln.A)), epsilon)
    /\ pc = "start" => lines = {}
    /\ pc = "aborted" =>
          /\ lines = {}
          /\ fless(norm(PointSub(given[2], given[1])), epsilon)
    /\ pc \in {"ready", "returned"} => lines = {[A |-> given[1], B |-> given[2]]}
    /\ given = S6Args => pc = "aborted"

C1_Witness == pc = "aborted" /\ given = S6Args

(***************************************************************************)
(* C2.  A line crosses each of its two defining points: crosses(A) and     *)
(* crosses(B) return true.                                                 *)
(***************************************************************************)
C2_CrossesDefiningPoints ==
    op = "crosses" =>
        \A ln \in lines : (arg = ln.A \/ arg = ln.B) => ret = TRUE

C2_Witness ==
    /\ op = "crosses"
    /\ lines = {S1Line}
    /\ arg = S1Line.B
    /\ ret = TRUE

(***************************************************************************)
(* C3.  crosses(C) returns true for every point C on the infinite line     *)
(* through A and B, wherever on it C is: before A, between A and B, or     *)
(* beyond B.                                                               *)
(***************************************************************************)
C3_CrossesCollinear ==
    op = "crosses" =>
        \A ln \in lines : Collinear(ln.A, ln.B, arg) => ret = TRUE

\* C is beyond B (t > 1), at neither defining point, and C's coordinates
\* are not exact multiples of the line's direction in binary.
C3_Witness ==
    /\ op = "crosses"
    /\ lines = {line(RayPt(0), RayPt(1))}
    /\ arg = RayPt(7)
    /\ Collinear(RayPt(0), RayPt(1), arg)
    /\ ret = TRUE

(***************************************************************************)
(* C4, as stated.  crosses returns false for the points 1e-7 off the line  *)
(* in the scenarios: (-7, 5.0000001) for the line through (0, 5) and       *)
(* (3, 5), (2.0000001, 0) for the line through (2, 0) and (2, 9), and      *)
(* (5, 4.9999999) for the line through (0, 0) and (1, 1).                  *)
(***************************************************************************)
C4_RejectsOffLine == OffLineCall => ret = FALSE

(***************************************************************************)
(* C4, amended.  crosses returns true for each of these three points: the  *)
(* test bounds 1 - |cos t| by epsilon, and a displacement of 1e-7 at these *)
(* distances changes |cos t| by far less.                                  *)
(***************************************************************************)
C4_AcceptsOffLine == OffLineCall => ret = TRUE

C4_Witness == OffLineCall /\ lines = {S1Line} /\ ~Collinear(S1Line.A, S1Line.B, arg)

(***************************************************************************)
(* C5.  Line equality is symmetric: r == s holds if and only if s == r     *)
(* holds.                                                                  *)
(***************************************************************************)
C5_EqualitySymmetric ==
    op = "eq" => \A ln \in lines : ret = LineEq(arg, ln)

(***************************************************************************)
(* C6.  crosses does not depend on the order of the defining points:       *)
(* line(A, B).crosses(C) equals line(B, A).crosses(C).                     *)
(***************************************************************************)
C6_CrossesOrderIndependent ==
    op = "crosses" => \A ln \in lines : ret = crosses(line(ln.B, ln.A), arg)

(***************************************************************************)
(* C7.  For a line that is not vertical (|A.x - B.x| >= epsilon), sine()   *)
(* is the same for line(A, B) and line(B, A): it is the sine of the        *)
(* direction from the endpoint of smaller x to the endpoint of greater x.  *)
(***************************************************************************)
LeftEnd(ln) == IF fless(ln.A.x, ln.B.x) THEN ln.A ELSE ln.B

RightEnd(ln) == IF fless(ln.A.x, ln.B.x) THEN ln.B ELSE ln.A

C7_SineSwapInvariant ==
    op = "sine" =>
        \A ln \in lines : ~Vertical(ln) =>
            /\ ret = sine(line(ln.B, ln.A))
            /\ ret = fdiv(fsub(RightEnd(ln).y, LeftEnd(ln).y),
                          norm(PointSub(RightEnd(ln), LeftEnd(ln))))

\* A line given from right to left and rising to the right.
C7_Witness ==
    /\ op = "sine"
    /\ lines = {line(RayPt(7), RayPt(0))}
    /\ fless(FromInt(0), ret)

(***************************************************************************)
(* C8.  sine() returns exactly 1 when |A.x - B.x| < epsilon, whatever the  *)
(* order of A.y and B.y, and a value in [-1, 1] otherwise.                 *)
(***************************************************************************)
C8_SineRange ==
    op = "sine" =>
        \A ln \in lines :
            IF Vertical(ln)
            THEN ret = FromInt(1)
            ELSE fle(FromInt(-1), ret) /\ fle(ret, FromInt(1))

\* A vertical line given from top to bottom.
C8_Witness ==
    /\ op = "sine"
    /\ lines = {line(IntPt(2, 9), IntPt(2, 0))}
    /\ ret = FromInt(1)

(***************************************************************************)
(* C9.  x_intercept() returns the largest finite double when               *)
(* |A.y - B.y| < epsilon and A.x - ((B.x - A.x) / (B.y - A.y)) * A.y       *)
(* otherwise; y_intercept() returns the largest finite double when         *)
(* |A.x - B.x| < epsilon and A.y - ((B.y - A.y) / (B.x - A.x)) * A.x       *)
(* otherwise.  So a line with A.x = B.x has its x as x-intercept (2 for    *)
(* the line through (2, 0) and (2, 9)) and a line with A.y = B.y has its   *)
(* y as y-intercept (5 for the line through (0, 5) and (3, 5)).            *)
(***************************************************************************)
C9_Intercepts ==
    \A ln \in lines :
        /\ op = "x_intercept" =>
              /\ Horizontal(ln) => ret = DBL_MAX
              /\ ~Horizontal(ln) =>
                    ret = fsub(ln.A.x,
                               fmul(fdiv(fsub(ln.B.x, ln.A.x),
                                         fsub(ln.B.y, ln.A.y)), ln.A.y))
              /\ ln.A.x = ln.B.x => feq(ret, ln.A.x)
              /\ ln = S2Line => ret = FromInt(2)
        /\ op = "y_intercept" =>
              /\ Vertical(ln) => ret = DBL_MAX
              /\ ~Vertical(ln) =>
                    ret = fsub(ln.A.y,
                               fmul(fdiv(fsub(ln.B.y, ln.A.y),
                                         fsub(ln.B.x, ln.A.x)), ln.A.x))
              /\ ln.A.y = ln.B.y => feq(ret, ln.A.y)
              /\ ln = S1Line => ret = FromInt(5)

C9_Witness ==
    /\ op = "x_intercept"
    /\ lines = {S2Line}
    /\ ret = FromInt(2)

(***************************************************************************)
(* C10.  No line that exists is classified both as vertical and as         *)
(* horizontal: at most one of |A.x - B.x| < epsilon and                    *)
(* |A.y - B.y| < epsilon holds, so the two intercepts are never both the   *)
(* largest finite double.                                                  *)
(***************************************************************************)
C10_NotVerticalAndHorizontal ==
    \A ln \in lines :
        /\ ~(Vertical(ln) /\ Horizontal(ln))
        /\ ~(x_intercept(ln) = DBL_MAX /\ y_intercept(ln) = DBL_MAX)
====
